---- MODULE Spec2Model ----
(***************************************************************************)
(* PPh 21 calculator of pph-calc: PPH21Calculator (rate tables, PTKP,      *)
(* progressive tax, TER rate lookup, biaya jabatan, calculate) and the     *)
(* values it computes with: decimal.js Decimal values inside calculate,    *)
(* JavaScript numbers (IEEE-754 doubles) in the arguments and the result.  *)
(*                                                                         *)
(* Amounts are wider than 32-bit integers, so magnitudes are kept as       *)
(* little-endian sequences of limbs in base 2^15. A value that the source  *)
(* names once and uses several times is the parameter of an operator.      *)
(***************************************************************************)
EXTENDS Integers, Sequences, FiniteSets, TLC

----------------------------------------------------------------------------
(* Natural numbers of any size: <<>> is 0, the last limb is never 0.       *)

Base == 2^15

MathMax(x, y) == IF x > y THEN x ELSE y
MathMin(x, y) == IF x < y THEN x ELSE y

Limb(a, i) == IF i >= 1 /\ i <= Len(a) THEN a[i] ELSE 0

RECURSIVE NormLen(_, _)
NormLen(a, n) ==
    IF n = 0 THEN 0 ELSE IF a[n] = 0 THEN NormLen(a, n - 1) ELSE n

BNorm(a) == SubSeq(a, 1, NormLen(a, Len(a)))

RECURSIVE BNat(_)
BNat(n) == IF n = 0 THEN <<>> ELSE <<n % Base>> \o BNat(n \div Base)

RECURSIVE BCmpAt(_, _, _)
BCmpAt(a, b, i) ==
    IF i = 0 THEN 0
    ELSE IF a[i] < b[i] THEN -1
    ELSE IF a[i] > b[i] THEN 1
    ELSE BCmpAt(a, b, i - 1)

\* -1, 0, 1 as a is below, equal to, above b
BCmp(a, b) ==
    IF Len(a) < Len(b) THEN -1
    ELSE IF Len(a) > Len(b) THEN 1
    ELSE BCmpAt(a, b, Len(a))

\* the limbs of a + b from limb i on, s being limb i of both plus the carry
RECURSIVE BAddAt(_, _, _, _)
BAddAt(a, b, i, s) ==
    IF i > Len(a) /\ i > Len(b) THEN (IF s = 0 THEN <<>> ELSE <<s>>)
    ELSE <<s % Base>>
         \o BAddAt(a, b, i + 1, Limb(a, i + 1) + Limb(b, i + 1) + (s \div Base))

BAdd(a, b) == BAddAt(a, b, 1, Limb(a, 1) + Limb(b, 1))

\* the limbs of a - b from limb i on, d being limb i of a less that of b and
\* the borrow
RECURSIVE BSubAt(_, _, _, _)
BSubAt(a, b, i, d) ==
    IF i > Len(a) THEN <<>>
    ELSE <<d % Base>>
         \o BSubAt(a, b, i + 1,
                   Limb(a, i + 1) - Limb(b, i + 1) - (IF d < 0 THEN 1 ELSE 0))

\* a - b for a >= b
BSub(a, b) == BNorm(BSubAt(a, b, 1, Limb(a, 1) - Limb(b, 1)))

\* the limbs of a * k from limb i on, p being limb i times k plus the carry
RECURSIVE BMulSmallAt(_, _, _, _)
BMulSmallAt(a, k, i, p) ==
    IF i > Len(a) THEN BNat(p)
    ELSE <<p % Base>>
         \o BMulSmallAt(a, k, i + 1, Limb(a, i + 1) * k + (p \div Base))

\* a * k for 0 <= k <= Base
BMulSmall(a, k) ==
    IF k = 0 THEN <<>> ELSE BMulSmallAt(a, k, 1, Limb(a, 1) * k)

\* a * Base^n
BShiftLimbs(a, n) == IF a = <<>> THEN <<>> ELSE [i \in 1..n |-> 0] \o a

RECURSIVE BMulAt(_, _, _)
BMulAt(a, b, j) ==
    IF j > Len(b) THEN <<>>
    ELSE BAdd(BMulSmall(a, b[j]), BShiftLimbs(BMulAt(a, b, j + 1), 1))

BMul(a, b) == BMulAt(a, b, 1)

\* the quotient limbs of a by k from limb i down, cur being the remainder so
\* far with limb i brought down
RECURSIVE BDivSmallAt(_, _, _, _)
BDivSmallAt(a, k, i, cur) ==
    IF i = 0 THEN <<>>
    ELSE BDivSmallAt(a, k, i - 1, (cur % k) * Base + Limb(a, i - 1))
         \o <<cur \div k>>

\* floor(a / k) for 0 < k <= Base
BDivSmall(a, k) == BNorm(BDivSmallAt(a, k, Len(a), Limb(a, Len(a))))

RECURSIVE BModSmallAt(_, _, _, _)
BModSmallAt(a, k, i, rem) ==
    IF i = 0 THEN rem ELSE BModSmallAt(a, k, i - 1, (rem * Base + a[i]) % k)

\* a mod k for 0 < k <= Base
BModSmall(a, k) == BModSmallAt(a, k, Len(a), 0)

\* the largest d in lo..hi with b * d <= cur (b * lo <= cur is given)
RECURSIVE BDigitFor(_, _, _, _)
RECURSIVE BDigitMid(_, _, _, _, _)
BDigitMid(cur, b, lo, hi, mid) ==
    IF BCmp(BMulSmall(b, mid), cur) <= 0
    THEN BDigitFor(cur, b, mid, hi)
    ELSE BDigitFor(cur, b, lo, mid - 1)

BDigitFor(cur, b, lo, hi) ==
    IF lo = hi THEN lo ELSE BDigitMid(cur, b, lo, hi, (lo + hi + 1) \div 2)

\* long division of a by b from limb i down, rem being the remainder so far
RECURSIVE BDivLimbs(_, _, _, _)
RECURSIVE BDivDigit(_, _, _, _, _)
BDivDigit(a, b, i, cur, d) ==
    BDivLimbs(a, b, i - 1, BSub(cur, BMulSmall(b, d))) \o <<d>>

\* the two leading limbs of cur, a number of at most n + 1 limbs
Top2(cur, n) == Limb(cur, n + 1) * Base + Limb(cur, n)

\* the quotient digit lies between the quotients of the leading limbs with
\* the divisor's leading limb taken one too large and as it is
RECURSIVE BDivCur(_, _, _, _)
BDivCur(a, b, i, cur) ==
    BDivDigit(a, b, i, cur,
              BDigitFor(cur, b,
                        Top2(cur, Len(b)) \div (b[Len(b)] + 1),
                        MathMin(Base - 1, (Top2(cur, Len(b)) + 1) \div b[Len(b)])))

BDivLimbs(a, b, i, rem) ==
    IF i = 0 THEN <<>> ELSE BDivCur(a, b, i, BNorm(<<a[i]>> \o rem))

\* floor(a / b) for b > 0
BDiv(a, b) ==
    IF Len(b) = 1 THEN BDivSmall(a, b[1])
    ELSE BNorm(BDivLimbs(a, b, Len(a), <<>>))

RECURSIVE BitsOf(_)
BitsOf(n) == IF n = 0 THEN 0 ELSE 1 + BitsOf(n \div 2)

BitLen(a) == IF a = <<>> THEN 0 ELSE 15 * (Len(a) - 1) + BitsOf(a[Len(a)])

\* a * 2^n
BShl(a, n) == BShiftLimbs(BMulSmall(a, 2^(n % 15)), n \div 15)

\* floor(a / 2^n)
BShr(a, n) ==
    IF n \div 15 >= Len(a) THEN <<>>
    ELSE BDivSmall(SubSeq(a, (n \div 15) + 1, Len(a)), 2^(n % 15))

BIsOdd(a) == a # <<>> /\ a[1] % 2 = 1

\* a * 10^n
RECURSIVE BMulPow10(_, _)
BMulPow10(a, n) ==
    IF n = 0 THEN a
    ELSE BMulPow10(BMulSmall(a, IF n >= 4 THEN 10000 ELSE 10),
                   IF n >= 4 THEN n - 4 ELSE n - 1)

BPow10(n) == BMulPow10(<<1>>, n)

\* floor(a / 10^n)
RECURSIVE BDivPow10(_, _)
BDivPow10(a, n) ==
    IF n = 0 THEN a
    ELSE BDivPow10(BDivSmall(a, IF n >= 4 THEN 10000 ELSE 10),
                   IF n >= 4 THEN n - 4 ELSE n - 1)

\* number of decimal digits of a (0 for 0)
RECURSIVE BDigits(_)
BDigits(a) ==
    IF a = <<>> THEN 0
    ELSE (IF Len(a) >= 2 THEN 4 ELSE 1)
         + BDigits(BDivSmall(a, IF Len(a) >= 2 THEN 10000 ELSE 10))

----------------------------------------------------------------------------
(* JavaScript numbers: finite IEEE-754 doubles, value (-1)^neg * man * 2^exp *)
(* with 2^52 <= man < 2^53, or zero. Subnormals and overflow are outside    *)
(* the range of any amount here.                                            *)

NumZero == [neg |-> FALSE, man |-> <<>>, exp |-> 0]

\* a mantissa that rounding up has carried to 54 bits loses its last bit
Renormalized(neg, q, e) ==
    IF BitLen(q) > 53
    THEN [neg |-> neg, man |-> BShr(q, 1), exp |-> e + 1]
    ELSE [neg |-> neg, man |-> q, exp |-> e]

\* q, the first 53 bits of a magnitude, rounded by what was cut: c is -1, 0,
\* 1 as the bits cut are below, at, above one half
RoundedUp(neg, q, e, c) ==
    Renormalized(neg,
                 IF c > 0 \/ (c = 0 /\ BIsOdd(q)) THEN BAdd(q, <<1>>) ELSE q,
                 e)

RoundAway(neg, mag, e, drop, q) ==
    RoundedUp(neg, q, e + drop,
              BCmp(BSub(mag, BShl(q, drop)), BShl(<<1>>, drop - 1)))

RoundTo53(neg, mag, e, bl) ==
    IF mag = <<>> THEN NumZero
    ELSE IF bl <= 53
    THEN [neg |-> neg, man |-> BShl(mag, 53 - bl), exp |-> e - (53 - bl)]
    ELSE RoundAway(neg, mag, e, bl - 53, BShr(mag, bl - 53))

\* the double nearest to mag * 2^e, ties to even
RoundBits(neg, mag, e) == RoundTo53(neg, mag, e, BitLen(mag))

\* the number written as the integer literal n
NumberOf(n) == RoundBits(n < 0, BNat(IF n < 0 THEN -n ELSE n), 0)

\* exact comparison of two magnitudes: -1, 0, 1
NumCmpMag(x, y) ==
    IF x.man = <<>> \/ y.man = <<>>
    THEN (IF x.man = y.man THEN 0 ELSE IF x.man = <<>> THEN -1 ELSE 1)
    ELSE IF x.exp # y.exp THEN (IF x.exp < y.exp THEN -1 ELSE 1)
    ELSE BCmp(x.man, y.man)

NumSigned(neg, c) == IF neg THEN -c ELSE c

NumCmp(x, y) ==
    IF x.neg # y.neg THEN (IF x.neg THEN -1 ELSE 1)
    ELSE NumSigned(x.neg, NumCmpMag(x, y))

NumNeg(x) == IF x.man = <<>> THEN x ELSE [x EXCEPT !.neg = ~x.neg]

\* the sum of magnitudes mx, my (in units of 2^e) carrying the signs of x, y
NumAddMags(x, y, e, mx, my, c) ==
    IF x.neg = y.neg THEN RoundBits(x.neg, BAdd(mx, my), e)
    ELSE IF c = 0 THEN NumZero
    ELSE IF c > 0 THEN RoundBits(x.neg, BSub(mx, my), e)
    ELSE RoundBits(y.neg, BSub(my, mx), e)

NumAddShifted(x, y, e, mx, my) == NumAddMags(x, y, e, mx, my, BCmp(mx, my))

NumAddAligned(x, y, e) ==
    NumAddShifted(x, y, e, BShl(x.man, x.exp - e), BShl(y.man, y.exp - e))

\* x + y as JavaScript computes it: the exact sum, rounded once
NumAdd(x, y) ==
    IF x.man = <<>> THEN y
    ELSE IF y.man = <<>> THEN x
    ELSE NumAddAligned(x, y, IF x.exp < y.exp THEN x.exp ELSE y.exp)

NumSub(x, y) == NumAdd(x, NumNeg(y))

NumIsInteger(x) ==
    \/ x.man = <<>>
    \/ x.exp >= 0
    \/ /\ -x.exp <= 52
       /\ BShl(BShr(x.man, -x.exp), -x.exp) = x.man

\* the magnitude of an integer-valued number
NumIntMag(x) ==
    IF x.man = <<>> THEN <<>>
    ELSE IF x.exp >= 0 THEN BShl(x.man, x.exp)
    ELSE BShr(x.man, -x.exp)

----------------------------------------------------------------------------
(* decimal.js values: (-1)^neg * c * 10^(-dp), or +Infinity. Every         *)
(* arithmetic result is rounded to Precision significant digits, half up   *)
(* (the library's defaults, which the program never changes).              *)

Precision == 20

Dec(neg, c, dp) == [neg |-> neg /\ c # <<>>, c |-> c, dp |-> dp, inf |-> FALSE]

DInfinity == [neg |-> FALSE, c |-> <<>>, dp |-> 0, inf |-> TRUE]

\* q with the k digits cut from d.c, as a value of d.dp - k decimal places
DRescaled(d, k, q) ==
    IF k <= d.dp THEN Dec(d.neg, q, d.dp - k)
    ELSE Dec(d.neg, BMulPow10(q, k - d.dp), 0)

\* d with its last k digits rounded away, q being the digits kept
DRoundAway(d, k, q) ==
    DRescaled(d, k,
              IF BCmp(BMulSmall(BSub(d.c, BMulPow10(q, k)), 2), BPow10(k)) >= 0
              THEN BAdd(q, <<1>>) ELSE q)

DRoundDigits(d, digits) ==
    IF digits <= Precision THEN d
    ELSE DRoundAway(d, digits - Precision, BDivPow10(d.c, digits - Precision))

DRound(d) == IF BitLen(d.c) <= 3 * Precision THEN d ELSE DRoundDigits(d, BDigits(d.c))

\* new Decimal(n) for an integer literal n
DecimalOf(n) == Dec(n < 0, BNat(IF n < 0 THEN -n ELSE n), 0)

\* strips factors of two from man while bits remain after the binary point
RECURSIVE StripTwos(_, _)
StripTwos(man, f) ==
    IF f = 0 \/ BIsOdd(man) THEN [man |-> man, f |-> f]
    ELSE IF f >= 15 /\ man[1] = 0 THEN StripTwos(Tail(man), f - 15)
    ELSE StripTwos(BShr(man, 1), f - 1)

RECURSIVE BMulPow5(_, _)
BMulPow5(a, n) == IF n = 0 THEN a ELSE BMulPow5(BMulSmall(a, 5), n - 1)

\* man / 2^f written as a decimal of f places
DecimalFraction(neg, s) == Dec(neg, BMulPow5(s.man, s.f), s.f)

\* new Decimal(x) for a number x: the decimal expansion of x, which is what
\* the constructor reads for whole amounts and short binary fractions
NewDecimal(x) ==
    IF x.man = <<>> THEN Dec(FALSE, <<>>, 0)
    ELSE IF x.exp >= 0 THEN Dec(x.neg, BShl(x.man, x.exp), 0)
    ELSE DecimalFraction(x.neg, StripTwos(x.man, -x.exp))

DCmpAt(a, b, dp) == BCmp(BMulPow10(a.c, dp - a.dp), BMulPow10(b.c, dp - b.dp))

DCmpMag(a, b) == DCmpAt(a, b, IF a.dp > b.dp THEN a.dp ELSE b.dp)

\* -1, 0, 1 as a is below, equal to, above b
DCmp(a, b) ==
    IF a.inf \/ b.inf THEN (IF a.inf /\ b.inf THEN 0 ELSE IF a.inf THEN 1 ELSE -1)
    ELSE IF a.neg # b.neg THEN (IF a.neg THEN -1 ELSE 1)
    ELSE NumSigned(a.neg, DCmpMag(a, b))

lte(a, b) == DCmp(a, b) <= 0
gte(a, b) == DCmp(a, b) >= 0
gt(a, b)  == DCmp(a, b) > 0
lt(a, b)  == DCmp(a, b) < 0

Decimal_min(a, b) == IF lte(a, b) THEN a ELSE b
Decimal_max(a, b) == IF gte(a, b) THEN a ELSE b

\* the signed sum of coefficients ca, cb of dp decimal places
PlusCoefficients(a, b, dp, ca, cb) ==
    IF a.neg = b.neg THEN Dec(a.neg, BAdd(ca, cb), dp)
    ELSE IF BCmp(ca, cb) >= 0 THEN Dec(a.neg, BSub(ca, cb), dp)
    ELSE Dec(b.neg, BSub(cb, ca), dp)

PlusAligned(a, b, dp) ==
    DRound(PlusCoefficients(a, b, dp,
                            BMulPow10(a.c, dp - a.dp), BMulPow10(b.c, dp - b.dp)))

plus(a, b) == PlusAligned(a, b, IF a.dp > b.dp THEN a.dp ELSE b.dp)

Negated(b) == Dec(~b.neg, b.c, b.dp)

minus(a, b) == plus(a, Negated(b))

times(a, b) == DRound(Dec(a.neg # b.neg, BMul(a.c, b.c), a.dp + b.dp))

\* the quotient q of the coefficients as a value of dp decimal places
DQuotient(neg, q, dp) ==
    DRound(IF dp >= 0 THEN Dec(neg, q, dp) ELSE Dec(neg, BMulPow10(q, -dp), 0))

\* a / b with the dividend scaled by 10^k
DividedScaled(a, b, k) ==
    DQuotient(a.neg # b.neg, BDiv(BMulPow10(a.c, k), b.c), a.dp - b.dp + k)

DividedDigits(a, b, k) == DividedScaled(a, b, IF k > 0 THEN k ELSE 0)

\* a / b (b # 0) to Precision significant digits
dividedBy(a, b) ==
    IF a.c = <<>> THEN Dec(FALSE, <<>>, 0)
    ELSE DividedDigits(a, b, Precision + 1 + BDigits(b.c) - BDigits(a.c))

\* a, whose whole part is q, rounded towards minus infinity
FloorOf(a, q) ==
    IF a.neg /\ BMulPow10(q, a.dp) # a.c
    THEN Dec(TRUE, BAdd(q, <<1>>), 0)
    ELSE Dec(a.neg, q, 0)

\* the largest integer not above a
floor(a) == FloorOf(a, BDivPow10(a.c, a.dp))

\* q = floor(n / 10^a.dp) with one more bit, set when the division left a
\* remainder, so that rounding sees whether the quotient was exact
ToNumberQuotient(a, s, n, q) ==
    RoundBits(a.neg,
              BAdd(BShl(q, 1), IF BMulPow10(q, a.dp) = n THEN <<>> ELSE <<1>>),
              -(s + 1))

ToNumberScaled(a, s, n) == ToNumberQuotient(a, s, n, BDivPow10(n, a.dp))

ToNumberShifted(a, s) == ToNumberScaled(a, s, BShl(a.c, s))

ToNumberBits(a, need) == ToNumberShifted(a, IF need > 0 THEN need ELSE 0)

\* the double nearest to a: a whole number is rounded as it stands, a fraction
\* as a quotient of enough bits
toNumber(a) ==
    IF a.dp = 0 THEN RoundBits(a.neg, a.c, 0)
    ELSE ToNumberBits(a, 55 + BitLen(BPow10(a.dp)) - BitLen(a.c))

----------------------------------------------------------------------------
(* Rate tables                                                             *)

Undefined == [undefined |-> TRUE]

\* a decimal literal n / 10^dp, as new Decimal(0.05) reads it
DecimalLit(n, dp) == Dec(FALSE, BNat(n), dp)

PTKP_RATES ==
    [TK |-> 54000000, K1 |-> 58500000, K2 |-> 63000000, K3 |-> 67500000]

TAX_BRACKETS == <<
    [limit |-> DecimalOf(50000000),  rate |-> DecimalLit(5, 2)],
    [limit |-> DecimalOf(250000000), rate |-> DecimalLit(15, 2)],
    [limit |-> DecimalOf(500000000), rate |-> DecimalLit(25, 2)],
    [limit |-> times(DecimalOf(5000), DecimalOf(1000000)), rate |-> DecimalLit(30, 2)],
    [limit |-> DInfinity,            rate |-> DecimalLit(35, 2)] >>

\* rates in ten-thousandths
TER_MONTHLY_RATES == <<
    [minIncome |-> DecimalOf(0),        maxIncome |-> DecimalOf(5000000),  rateA |-> 0,    rateB |-> 0,    rateC |-> 0],
    [minIncome |-> DecimalOf(5000001),  maxIncome |-> DecimalOf(6000000),  rateA |-> 25,   rateB |-> 50,   rateC |-> 75],
    [minIncome |-> DecimalOf(6000001),  maxIncome |-> DecimalOf(7000000),  rateA |-> 50,   rateB |-> 75,   rateC |-> 100],
    [minIncome |-> DecimalOf(7000001),  maxIncome |-> DecimalOf(8000000),  rateA |-> 75,   rateB |-> 100,  rateC |-> 125],
    [minIncome |-> DecimalOf(8000001),  maxIncome |-> DecimalOf(10000000), rateA |-> 100,  rateB |-> 150,  rateC |-> 200],
    [minIncome |-> DecimalOf(10000001), maxIncome |-> DecimalOf(15000000), rateA |-> 200,  rateB |-> 300,  rateC |-> 400],
    [minIncome |-> DecimalOf(15000001), maxIncome |-> DecimalOf(25000000), rateA |-> 400,  rateB |-> 600,  rateC |-> 800],
    [minIncome |-> DecimalOf(25000001), maxIncome |-> DecimalOf(50000000), rateA |-> 800,  rateB |-> 1200, rateC |-> 1600],
    [minIncome |-> DecimalOf(50000001), maxIncome |-> DInfinity,           rateA |-> 1500, rateB |-> 2000, rateC |-> 2500] >>

----------------------------------------------------------------------------
(* PPH21Calculator                                                         *)

\* PTKP_RATES is an object literal: besides its own four keys it answers to
\* the names it inherits from Object.prototype, with a function or an object
ObjectPrototype ==
    {"constructor", "toString", "toLocaleString", "valueOf", "hasOwnProperty",
     "isPrototypeOf", "propertyIsEnumerable", "__proto__"}

\* new Decimal(value) of a value that is no number, string or Decimal throws
DecimalError == [thrown |-> "DecimalError"]

Thrown(value) == "thrown" \in DOMAIN value

\* new Decimal(PTKP_RATES[status] || PTKP_RATES['TK'])
getPTKP(status) ==
    IF status \in DOMAIN PTKP_RATES THEN DecimalOf(PTKP_RATES[status])
    ELSE IF status \in ObjectPrototype THEN DecimalError
    ELSE DecimalOf(PTKP_RATES["TK"])

\* the loop over TAX_BRACKETS from bracket i on
RECURSIVE ProgressiveTaxFrom(_, _, _, _)

\* the end of one pass of the loop: break, or go on to the next bracket
NextBracket(pkp, i, tax) ==
    IF lte(pkp, TAX_BRACKETS[i].limit) THEN tax
    ELSE ProgressiveTaxFrom(pkp, i + 1, tax, TAX_BRACKETS[i].limit)

\* TaxInBracket assigning where the source accumulates: tax = taxableInBracket.times(rate)
TaxInBracket_Overwrite(pkp, i, tax, taxableInBracket) ==
    NextBracket(pkp, i,
                IF gt(taxableInBracket, DecimalOf(0))
                THEN times(taxableInBracket, TAX_BRACKETS[i].rate)
                ELSE tax)

\* TaxInBracket reading the rates as whole percents: 5 for 0.05
TaxInBracket_Percent(pkp, i, tax, taxableInBracket) ==
    NextBracket(pkp, i,
                IF gt(taxableInBracket, DecimalOf(0))
                THEN plus(tax, times(taxableInBracket,
                                     times(TAX_BRACKETS[i].rate, DecimalOf(100))))
                ELSE tax)

\* tax = tax.plus(taxableInBracket.times(rate)) when the bracket is reached
TaxInBracket(pkp, i, tax, taxableInBracket) ==
    NextBracket(pkp, i,
                IF gt(taxableInBracket, DecimalOf(0))
                THEN plus(tax, times(taxableInBracket, TAX_BRACKETS[i].rate))
                ELSE tax)

\* ProgressiveTaxFrom taxing in each bracket all the income up to its limit:
\* no minus(previousLimit)
ProgressiveTaxFrom_FromZero(pkp, i, tax, previousLimit) ==
    IF i > Len(TAX_BRACKETS) THEN tax
    ELSE TaxInBracket(pkp, i, tax, Decimal_min(pkp, TAX_BRACKETS[i].limit))

ProgressiveTaxFrom(pkp, i, tax, previousLimit) ==
    IF i > Len(TAX_BRACKETS) THEN tax
    ELSE TaxInBracket(pkp, i, tax,
                      minus(Decimal_min(pkp, TAX_BRACKETS[i].limit), previousLimit))

\* calculateProgressiveTax charging the first bracket's rate on all of pkp
calculateProgressiveTax_Flat(pkp) ==
    IF lte(pkp, DecimalOf(0)) THEN DecimalOf(0)
    ELSE times(pkp, TAX_BRACKETS[1].rate)

calculateProgressiveTax(pkp) ==
    IF lte(pkp, DecimalOf(0)) THEN DecimalOf(0)
    ELSE ProgressiveTaxFrom(pkp, 1, DecimalOf(0), DecimalOf(0))

\* the rate of a bracket for a category, in ten-thousandths
RateOf(bracket, category) ==
    CASE category = "A" -> bracket.rateA
      [] category = "B" -> bracket.rateB
      [] category = "C" -> bracket.rateC

\* the loop over TER_MONTHLY_RATES from row i on
RECURSIVE TERRateFrom(_, _, _)

\* TERRateFrom charging nothing when no row matches
TERRateFrom_NoFallback(monthlyIncome, category, i) ==
    IF i > Len(TER_MONTHLY_RATES)
    THEN DecimalOf(0)
    ELSE IF /\ gte(monthlyIncome, TER_MONTHLY_RATES[i].minIncome)
            /\ lte(monthlyIncome, TER_MONTHLY_RATES[i].maxIncome)
            /\ category \in {"A", "B", "C"}
    THEN DecimalLit(RateOf(TER_MONTHLY_RATES[i], category), 4)
    ELSE TERRateFrom(monthlyIncome, category, i + 1)

\* TERRateFrom with the upper end of each row excluded: lt for lte
TERRateFrom_ExclusiveMax(monthlyIncome, category, i) ==
    IF i > Len(TER_MONTHLY_RATES)
    THEN DecimalLit(IF category = "A" THEN 15
                    ELSE IF category = "B" THEN 20 ELSE 25, 2)
    ELSE IF /\ gte(monthlyIncome, TER_MONTHLY_RATES[i].minIncome)
            /\ lt(monthlyIncome, TER_MONTHLY_RATES[i].maxIncome)
            /\ category \in {"A", "B", "C"}
    THEN DecimalLit(RateOf(TER_MONTHLY_RATES[i], category), 4)
    ELSE TERRateFrom(monthlyIncome, category, i + 1)

\* TERRateFrom with the lower end of each row excluded: gt for gte
TERRateFrom_ExclusiveMin(monthlyIncome, category, i) ==
    IF i > Len(TER_MONTHLY_RATES)
    THEN DecimalLit(IF category = "A" THEN 15
                    ELSE IF category = "B" THEN 20 ELSE 25, 2)
    ELSE IF /\ gt(monthlyIncome, TER_MONTHLY_RATES[i].minIncome)
            /\ lte(monthlyIncome, TER_MONTHLY_RATES[i].maxIncome)
            /\ category \in {"A", "B", "C"}
    THEN DecimalLit(RateOf(TER_MONTHLY_RATES[i], category), 4)
    ELSE TERRateFrom(monthlyIncome, category, i + 1)

TERRateFrom(monthlyIncome, category, i) ==
    IF i > Len(TER_MONTHLY_RATES)
    THEN DecimalLit(IF category = "A" THEN 15
                    ELSE IF category = "B" THEN 20 ELSE 25, 2)
    ELSE IF /\ gte(monthlyIncome, TER_MONTHLY_RATES[i].minIncome)
            /\ lte(monthlyIncome, TER_MONTHLY_RATES[i].maxIncome)
            /\ category \in {"A", "B", "C"}
    THEN DecimalLit(RateOf(TER_MONTHLY_RATES[i], category), 4)
    ELSE TERRateFrom(monthlyIncome, category, i + 1)

getTERRate(monthlyIncome, category) == TERRateFrom(monthlyIncome, category, 1)

\* calculateBiayaJabatan without the cap of 6,000,000
calculateBiayaJabatan_Uncapped(grossAnnual) == times(grossAnnual, DecimalLit(5, 2))

calculateBiayaJabatan(grossAnnual) ==
    Decimal_min(times(grossAnnual, DecimalLit(5, 2)), DecimalOf(6000000))

\* roundDownThousand rounding up: ceil for floor
roundDownThousand_Up(value) ==
    times(Negated(floor(Negated(dividedBy(value, DecimalOf(1000))))), DecimalOf(1000))

\* roundDownThousand rounding down to a whole rupiah
roundDownThousand_Rupiah(value) == floor(value)

roundDownThousand(value) ==
    times(floor(dividedBy(value, DecimalOf(1000))), DecimalOf(1000))

\* Math.max(1, Math.min(12, workMonthsInput))
\* ClampWorkMonths without the lower end: Math.min(12, workMonthsInput)
ClampWorkMonths_UpperOnly(workMonthsInput) == MathMin(12, workMonthsInput)

ClampWorkMonths(workMonthsInput) == MathMax(1, MathMin(12, workMonthsInput))

\* bonuses.reduce((sum, bonus) => sum.plus(bonus.amount), new Decimal(0)), from bonus k on
RECURSIVE BonusSumFrom(_, _, _)
BonusSumFrom(bonuses, k, sum) ==
    IF k > Len(bonuses) THEN sum
    ELSE BonusSumFrom(bonuses, k + 1, plus(sum, NewDecimal(bonuses[k].amount)))

BonusTotal(bonuses) == BonusSumFrom(bonuses, 1, DecimalOf(0))

\* the 12 slots (indexed from 0) holding the salary of each worked month
SalarySlots(grossMonthly, workMonths) ==
    [i \in 0..11 |-> IF i < workMonths THEN grossMonthly ELSE DecimalOf(0)]

\* the loop adding each bonus to the slot of its month, from bonus k on
RECURSIVE AddBonusesFrom(_, _, _, _)

AddBonusAt(monthlyIncome, bonuses, k, workMonths, monthIndex) ==
    IF monthIndex >= 0 /\ monthIndex < 12 /\ monthIndex < workMonths
    THEN AddBonusesFrom([monthlyIncome EXCEPT ![monthIndex] =
                             plus(@, NewDecimal(bonuses[k].amount))],
                        bonuses, k + 1, workMonths)
    ELSE AddBonusesFrom(monthlyIncome, bonuses, k + 1, workMonths)

\* AddBonusesFrom without the conversion to a 0-indexed month
AddBonusesFrom_NoConversion(monthlyIncome, bonuses, k, workMonths) ==
    IF k > Len(bonuses) THEN monthlyIncome
    ELSE AddBonusAt(monthlyIncome, bonuses, k, workMonths, bonuses[k].month)

\* AddBonusesFrom putting a bonus of month 12 in the last month withheld
AddBonusesFrom_LastWithheld(monthlyIncome, bonuses, k, workMonths) ==
    IF k > Len(bonuses) THEN monthlyIncome
    ELSE AddBonusAt(monthlyIncome, bonuses, k, workMonths,
                    MathMin(bonuses[k].month - 1, 10))

AddBonusesFrom(monthlyIncome, bonuses, k, workMonths) ==
    IF k > Len(bonuses) THEN monthlyIncome
    ELSE AddBonusAt(monthlyIncome, bonuses, k, workMonths, bonuses[k].month - 1)

MonthlyIncome(grossMonthly, bonuses, workMonths) ==
    AddBonusesFrom(SalarySlots(grossMonthly, workMonths), bonuses, 1, workMonths)

\* names.join(', ')
RECURSIVE Join(_)
Join(names) ==
    IF names = <<>> THEN ""
    ELSE IF Len(names) = 1 THEN names[1]
    ELSE names[1] \o ", " \o Join(Tail(names))

BonusNamesOf(monthBonuses) ==
    Join([k \in 1..Len(monthBonuses) |-> monthBonuses[k].name])

\* one record of monthlyBreakdown, for slot i (month i + 1)
BreakdownOf(i, income, terRate, monthTax, monthBonuses) ==
    [month      |-> i + 1,
     income     |-> toNumber(income),
     terRate    |-> toNumber(terRate),
     tax        |-> toNumber(monthTax),
     hasBonus   |-> Len(monthBonuses) > 0,
     bonusNames |-> IF Len(monthBonuses) > 0 THEN BonusNamesOf(monthBonuses)
                    ELSE Undefined]

\* bonuses.filter(b => b.month === month), from bonus k on
RECURSIVE BonusesOfMonth(_, _, _)
BonusesOfMonth(bonuses, month, k) ==
    IF k > Len(bonuses) THEN <<>>
    ELSE (IF bonuses[k].month = month THEN <<bonuses[k]>> ELSE <<>>)
         \o BonusesOfMonth(bonuses, month, k + 1)

BreakdownRecord(i, income, terRate, monthTax, bonuses) ==
    BreakdownOf(i, income, terRate, monthTax, BonusesOfMonth(bonuses, i + 1, 1))

\* the loop over months 1 to 11, from slot i on
RECURSIVE TERLoopFrom(_, _, _, _, _, _, _)

\* TERMonthTaxed assigning where the source accumulates: terPaid = monthTax
TERMonthTaxed_Overwrite(monthlyIncome, bonuses, terCategory, workMonths, i, monthlyBreakdown, terPaid, terRate, monthTax) ==
    TERLoopFrom(monthlyIncome, bonuses, terCategory, workMonths, i + 1,
                Append(monthlyBreakdown,
                       BreakdownRecord(i, monthlyIncome[i], terRate, monthTax, bonuses)),
                monthTax)

TERMonthTaxed(monthlyIncome, bonuses, terCategory, workMonths, i, monthlyBreakdown, terPaid, terRate, monthTax) ==
    TERLoopFrom(monthlyIncome, bonuses, terCategory, workMonths, i + 1,
                Append(monthlyBreakdown,
                       BreakdownRecord(i, monthlyIncome[i], terRate, monthTax, bonuses)),
                plus(terPaid, monthTax))

TERMonthRated(monthlyIncome, bonuses, terCategory, workMonths, i, monthlyBreakdown, terPaid, terRate) ==
    TERMonthTaxed(monthlyIncome, bonuses, terCategory, workMonths, i, monthlyBreakdown,
                  terPaid, terRate, times(monthlyIncome[i], terRate))

\* TERLoopFrom running the table for month 12 too: i < 12 for i < 11
TERLoopFrom_Twelve(monthlyIncome, bonuses, terCategory, workMonths, i, monthlyBreakdown, terPaid) ==
    IF ~(i < 12 /\ i < workMonths)
    THEN [monthlyBreakdown |-> monthlyBreakdown, terPaid |-> terPaid]
    ELSE TERMonthRated(monthlyIncome, bonuses, terCategory, workMonths, i,
                       monthlyBreakdown, terPaid,
                       getTERRate(monthlyIncome[i], terCategory))

TERLoopFrom(monthlyIncome, bonuses, terCategory, workMonths, i, monthlyBreakdown, terPaid) ==
    IF ~(i < 11 /\ i < workMonths)
    THEN [monthlyBreakdown |-> monthlyBreakdown, terPaid |-> terPaid]
    ELSE TERMonthRated(monthlyIncome, bonuses, terCategory, workMonths, i,
                       monthlyBreakdown, terPaid,
                       getTERRate(monthlyIncome[i], terCategory))

TERLoop(monthlyIncome, bonuses, terCategory, workMonths) ==
    TERLoopFrom(monthlyIncome, bonuses, terCategory, workMonths, 0, <<>>, DecimalOf(0))

\* Truthy as it is for numbers, where 0 is falsy
Truthy_Number(x) == x # Undefined /\ x.c # <<>>

\* a Decimal object is truthy whatever its value
Truthy(x) == x # Undefined

(* calculate: its local constants are declared in the order of the source,  *)
(* each group of declarations adding its names to the record l of those     *)
(* declared before it.                                                      *)

\* grossMonthly, workMonths, pensionMonthly, zakatAnnual
DeclareInputs(l) ==
    l @@ [grossMonthly   |-> NewDecimal(l.grossMonthlyInput),
          workMonths     |-> ClampWorkMonths(l.workMonthsInput),
          pensionMonthly |-> NewDecimal(l.pensionMonthlyInput),
          zakatAnnual    |-> NewDecimal(l.zakatAnnualInput)]

\* the bonuses dated to a worked month, from bonus k on
RECURSIVE WorkedBonusesFrom(_, _, _)
WorkedBonusesFrom(bonuses, workMonths, k) ==
    IF k > Len(bonuses) THEN <<>>
    ELSE (IF bonuses[k].month <= workMonths THEN <<bonuses[k]>> ELSE <<>>)
         \o WorkedBonusesFrom(bonuses, workMonths, k + 1)

\* DeclareTotals leaving the bonuses of unworked months out of bonusTotal
DeclareTotals_WorkedBonuses(l) ==
    l @@ [grossFromSalary |-> times(l.grossMonthly, DecimalOf(l.workMonths)),
          bonusTotal      |-> BonusTotal(WorkedBonusesFrom(l.bonuses, l.workMonths, 1)),
          pensionAnnual   |-> times(l.pensionMonthly, DecimalOf(l.workMonths))]

\* grossFromSalary, bonusTotal, pensionAnnual
DeclareTotals(l) ==
    l @@ [grossFromSalary |-> times(l.grossMonthly, DecimalOf(l.workMonths)),
          bonusTotal      |-> BonusTotal(l.bonuses),
          pensionAnnual   |-> times(l.pensionMonthly, DecimalOf(l.workMonths))]

DeclareGrossAnnual(l) ==
    l @@ [grossAnnual |-> plus(l.grossFromSalary, l.bonusTotal)]

DeclareBiayaJabatan(l) ==
    l @@ [biayaJabatan |-> calculateBiayaJabatan(l.grossAnnual)]

\* DeclareTotalDeductions taking zakat as a monthly amount
DeclareTotalDeductions_MonthlyZakat(l) ==
    l @@ [totalDeductions |-> plus(plus(l.biayaJabatan, l.pensionAnnual),
                                   times(l.zakatAnnual, DecimalOf(l.workMonths)))]

DeclareTotalDeductions(l) ==
    l @@ [totalDeductions |-> plus(plus(l.biayaJabatan, l.pensionAnnual), l.zakatAnnual)]

\* nettoAnnual, ptkp
DeclareNetto(l) ==
    l @@ [nettoAnnual |-> minus(l.grossAnnual, l.totalDeductions),
          ptkp        |-> getPTKP(l.ptkpStatus)]

\* DeclarePkp without the rounding down to a thousand
DeclarePkp_Unrounded(l) ==
    l @@ [pkp |-> Decimal_max(DecimalOf(0), minus(l.nettoAnnual, l.ptkp))]

DeclarePkp(l) ==
    l @@ [pkp |-> roundDownThousand(
                      Decimal_max(DecimalOf(0), minus(l.nettoAnnual, l.ptkp)))]

\* the branch on the scheme: monthlyBreakdown and terPaid, then annualTax
\* the TER branch reporting the tax withheld in the year as the year's tax
WithheldAsAnnual(l, loop) == l @@ loop @@ [annualTax |-> loop.terPaid]

\* DeclareTax with annualTax = terPaid under TER
DeclareTax_Withheld(l) ==
    IF l.scheme = "ter"
    THEN WithheldAsAnnual(l, TERLoop(MonthlyIncome(l.grossMonthly, l.bonuses, l.workMonths),
                                     l.bonuses, l.terCategory, l.workMonths))
    ELSE l @@ [monthlyBreakdown |-> Undefined, terPaid |-> Undefined,
               annualTax |-> calculateProgressiveTax(l.pkp)]

DeclareTax(l) ==
    l @@ (IF l.scheme = "ter"
          THEN TERLoop(MonthlyIncome(l.grossMonthly, l.bonuses, l.workMonths),
                       l.bonuses, l.terCategory, l.workMonths)
          ELSE [monthlyBreakdown |-> Undefined, terPaid |-> Undefined])
      @@ [annualTax |-> calculateProgressiveTax(l.pkp)]

\* DeclareShares reporting the effective rate as a fraction: no times(100)
DeclareShares_Fraction(l) ==
    l @@ [month12Adjustment |-> IF l.scheme = "ter" THEN minus(l.annualTax, l.terPaid)
                                ELSE Undefined,
          monthlyTax        |-> dividedBy(l.annualTax, DecimalOf(12)),
          effectiveTaxRate  |-> IF gt(l.grossAnnual, DecimalOf(0))
                                THEN dividedBy(l.annualTax, l.grossAnnual)
                                ELSE DecimalOf(0),
          takeHomeAnnual    |-> minus(l.grossAnnual, l.annualTax)]

\* month12Adjustment, monthlyTax, effectiveTaxRate, takeHomeAnnual
DeclareShares(l) ==
    l @@ [month12Adjustment |-> IF l.scheme = "ter" THEN minus(l.annualTax, l.terPaid)
                                ELSE Undefined,
          monthlyTax        |-> dividedBy(l.annualTax, DecimalOf(12)),
          effectiveTaxRate  |-> IF gt(l.grossAnnual, DecimalOf(0))
                                THEN times(dividedBy(l.annualTax, l.grossAnnual),
                                           DecimalOf(100))
                                ELSE DecimalOf(0),
          takeHomeAnnual    |-> minus(l.grossAnnual, l.annualTax)]

DeclareTakeHomeMonthly(l) ==
    l @@ [takeHomeMonthly |-> dividedBy(l.takeHomeAnnual, DecimalOf(12))]

\* value ? value.toNumber() : undefined
ToNumberIfSet(value) == IF Truthy(value) THEN toNumber(value) ELSE Undefined

\* the object calculate returns
ReturnValue(l) ==
    [grossMonthly      |-> toNumber(l.grossMonthly),
     grossAnnual       |-> toNumber(l.grossAnnual),
     bonusTotal        |-> toNumber(l.bonusTotal),
     bonuses           |-> l.bonuses,
     workMonths        |-> l.workMonths,
     biayaJabatan      |-> toNumber(l.biayaJabatan),
     pensionAnnual     |-> toNumber(l.pensionAnnual),
     zakatDonation     |-> toNumber(l.zakatAnnual),
     totalDeductions   |-> toNumber(l.totalDeductions),
     nettoAnnual       |-> toNumber(l.nettoAnnual),
     ptkp              |-> toNumber(l.ptkp),
     pkp               |-> toNumber(l.pkp),
     scheme            |-> l.scheme,
     terCategory       |-> IF l.scheme = "ter" THEN l.terCategory ELSE Undefined,
     annualTax         |-> toNumber(l.annualTax),
     monthlyTax        |-> toNumber(l.monthlyTax),
     effectiveTaxRate  |-> toNumber(l.effectiveTaxRate),
     terPaid           |-> ToNumberIfSet(l.terPaid),
     month12Adjustment |-> ToNumberIfSet(l.month12Adjustment),
     monthlyBreakdown  |-> l.monthlyBreakdown,
     takeHomeAnnual    |-> toNumber(l.takeHomeAnnual),
     takeHomeMonthly   |-> toNumber(l.takeHomeMonthly)]

calculate(grossMonthlyInput, ptkpStatus, workMonthsInput, scheme, terCategory, pensionMonthlyInput, zakatAnnualInput, bonuses) ==
    IF Thrown(getPTKP(ptkpStatus)) THEN getPTKP(ptkpStatus)
    ELSE
    ReturnValue(
    DeclareTakeHomeMonthly(
    DeclareShares(
    DeclareTax(
    DeclarePkp(
    DeclareNetto(
    DeclareTotalDeductions(
    DeclareBiayaJabatan(
    DeclareGrossAnnual(
    DeclareTotals(
    DeclareInputs(
        [grossMonthlyInput   |-> grossMonthlyInput,
         ptkpStatus          |-> ptkpStatus,
         workMonthsInput     |-> workMonthsInput,
         scheme              |-> scheme,
         terCategory         |-> terCategory,
         pensionMonthlyInput |-> pensionMonthlyInput,
         zakatAnnualInput    |-> zakatAnnualInput,
         bonuses             |-> bonuses])))))))))))

----------------------------------------------------------------------------
(* Calls of the calculator: the arguments are drawn first, the call then  *)
(* returns. A caller passes any numbers: the form checks its fields before *)
(* it calls calculate, other callers need not.                             *)

VARIABLES
    args,       \* the arguments of the call
    result,     \* what the call returned or threw, Undefined before that
    heap,       \* the arrays the page has created for bonusList, by reference
    bonusList,  \* the page's bonusList: a reference to an array of the heap
    held,       \* the first result the page got, with the reference in its
                \* bonuses field; Undefined before that
    errorDiv,   \* the message the error box shows, "" while it is hidden
    resultsDiv  \* whether the results panel is shown

vars == <<args, result, heap, bonusList, held, errorDiv, resultsDiv>>
page == <<heap, bonusList, held, errorDiv, resultsDiv>>

MaxBonuses == 2

GrossMonthlyInputs == {-1000000, 4736843, 8000000, 10000000, 450000000}
StatusInputs       == {"TK", "K3"}
WorkMonthsInputs   == {0, 6, 12, 13}
CategoryInputs     == {"A", "B", "C"}
DeductionInputs ==
    { [pensionMonthly |-> 0,      zakatAnnual |-> 0],
      [pensionMonthly |-> 200000, zakatAnnual |-> 1500000] }
BonusInputs ==
    { [name |-> "THR",     amount |-> NumberOf(5000000), month |-> 6],
      [name |-> "Yearend", amount |-> NumberOf(7500000), month |-> 12] }

Extended(shorter, S) == shorter \cup {Append(q, x) : q \in shorter, x \in S}

RECURSIVE SeqsUpTo(_, _)
SeqsUpTo(S, n) == IF n = 0 THEN {<<>>} ELSE Extended(SeqsUpTo(S, n - 1), S)

BonusLists == SeqsUpTo(BonusInputs, MaxBonuses)

\* a traditional call leaves the category at its default, B
SchemeInputs ==
    {<<"traditional", "B">>} \cup {<<"ter", cat>> : cat \in CategoryInputs}

CalculateArguments ==
    { [fn |-> "calculate", grossMonthly |-> g, ptkpStatus |-> st, workMonths |-> wm,
       scheme |-> sch[1], terCategory |-> sch[2], pensionMonthly |-> d.pensionMonthly,
       zakatAnnual |-> d.zakatAnnual, bonuses |-> bs] :
        g \in GrossMonthlyInputs, st \in StatusInputs, wm \in WorkMonthsInputs,
        sch \in SchemeInputs, d \in DeductionInputs, bs \in BonusLists }

\* amounts of millions * 1,000,000 + rest rupiah, around every bracket limit
AmountInputs ==
    { <<0, -1000>>, <<0, -1>>, <<0, 0>>, <<0, 1>>, <<49, 999999>>, <<50, 0>>,
      <<50, 1>>, <<120, 0>>, <<249, 999000>>, <<250, 0>>, <<250, 1000>>,
      <<500, 0>>, <<500, 1>>, <<4999, 999999>>, <<5000, 0>>, <<5000, 1>>,
      <<7000, 0>> }

Amount(a) == plus(times(DecimalOf(a[1]), DecimalOf(1000000)), DecimalOf(a[2]))

ProgressiveTaxArguments ==
    { [fn |-> "calculateProgressiveTax", pkp1 |-> Amount(a), pkp2 |-> Amount(b)] :
        a \in AmountInputs, b \in AmountInputs }

BiayaJabatanArguments ==
    { [fn |-> "calculateBiayaJabatan", grossAnnual |-> Amount(a)] : a \in AmountInputs }

\* calls at the edges of the domain: no income, a status that is no key of
\* PTKP_RATES or an inherited one, months worked below 1, a category passed
\* with the traditional scheme, bonuses dated outside 1..12
EdgeBonusLists ==
    { <<>>,
      <<[name |-> "THR",   amount |-> NumberOf(5000000), month |-> 6]>>,
      <<[name |-> "Start", amount |-> NumberOf(2000000), month |-> 1]>>,
      <<[name |-> "Early", amount |-> NumberOf(1000000), month |-> 0]>>,
      <<[name |-> "Late",  amount |-> NumberOf(1000000), month |-> 13]>> }

EdgeArguments ==
    { [fn |-> "calculate", grossMonthly |-> g, ptkpStatus |-> st, workMonths |-> wm,
       scheme |-> sch[1], terCategory |-> sch[2], pensionMonthly |-> 0,
       zakatAnnual |-> 0, bonuses |-> bs] :
        g \in {0, 5000004, 10000000}, st \in {"TK", "XX", "constructor"}, wm \in {-3, 12},
        sch \in {<<"traditional", "A">>, <<"traditional", "C">>, <<"ter", "B">>},
        bs \in EdgeBonusLists }

\* statuses: the four keys, the empty string, lower case, an unknown code and
\* two names every object inherits
PTKPArguments ==
    { [fn |-> "getPTKP", status |-> st] :
        st \in {"TK", "K1", "K2", "K3", "", "tk", "k3", "XX", "constructor", "toString"} }

\* monthly incomes in tenths of a rupiah: the ends of the rows, amounts
\* between one row and the next, and amounts below the first row
TERIncomeInputs ==
    { DecimalLit(n, 1) :
        n \in {0, 5, 50000000, 50000005, 50000010, 60000000, 60000004, 60000010,
               80000000, 80000001, 80000010, 100000009, 150000005, 250000005, 500000000,
               500000005, 500000010, 2000000000} }
    \cup { Negated(DecimalLit(n, 1)) : n \in {1, 10, 50000005} }

TERRateArguments ==
    { [fn |-> "getTERRate", monthlyIncome |-> inc, category |-> cat] :
        inc \in TERIncomeInputs, cat \in CategoryInputs }

Returned(a) ==
    calculate(NumberOf(a.grossMonthly), a.ptkpStatus, a.workMonths, a.scheme,
              a.terCategory, NumberOf(a.pensionMonthly), NumberOf(a.zakatAnnual),
              a.bonuses)

\* what a call leaves in the bonuses array it was passed: calculate reads it
\* with reduce, for...of, filter and map, and writes to none of its elements
BonusesAfterCall_Emptied(bonuses) == <<>>

BonusesAfterCall(bonuses) == bonuses

CalculateTraditional ==
    /\ result = Undefined
    /\ args.fn = "calculate"
    /\ args.scheme = "traditional"
    /\ result' = Returned(args)
    /\ args' = [args EXCEPT !.bonuses = BonusesAfterCall(@)]
    /\ UNCHANGED page

CalculateTER ==
    /\ result = Undefined
    /\ args.fn = "calculate"
    /\ args.scheme = "ter"
    /\ result' = Returned(args)
    /\ args' = [args EXCEPT !.bonuses = BonusesAfterCall(@)]
    /\ UNCHANGED page

\* calculateProgressiveTax applied to two taxable incomes
ProgressiveTax ==
    /\ result = Undefined
    /\ args.fn = "calculateProgressiveTax"
    /\ result' = [tax1 |-> calculateProgressiveTax(args.pkp1),
                  tax2 |-> calculateProgressiveTax(args.pkp2)]
    /\ UNCHANGED <<args, page>>

BiayaJabatan ==
    /\ result = Undefined
    /\ args.fn = "calculateBiayaJabatan"
    /\ result' = [biayaJabatan |-> calculateBiayaJabatan(args.grossAnnual)]
    /\ UNCHANGED <<args, page>>

PTKP ==
    /\ result = Undefined
    /\ args.fn = "getPTKP"
    /\ result' = [ptkp |-> getPTKP(args.status)]
    /\ UNCHANGED <<args, page>>

TERRate ==
    /\ result = Undefined
    /\ args.fn = "getTERRate"
    /\ result' = [terRate |-> getTERRate(args.monthlyIncome, args.category)]
    /\ UNCHANGED <<args, page>>

\* the page as it loads: bonusList = [], no result yet, and updateFormFields
\* has hidden the results and cleared the error
InitPage ==
    /\ heap = << <<>> >>
    /\ bonusList = 1
    /\ held = Undefined
    /\ errorDiv = ""
    /\ resultsDiv = FALSE

Init ==
    /\ args \in CalculateArguments \cup EdgeArguments \cup ProgressiveTaxArguments
                \cup BiayaJabatanArguments \cup PTKPArguments \cup TERRateArguments
    /\ result = Undefined
    /\ InitPage

Next ==
    \/ CalculateTraditional
    \/ CalculateTER
    \/ ProgressiveTax
    \/ BiayaJabatan
    \/ PTKP
    \/ TERRate

Spec == Init /\ [][Next]_vars

\* calculateProgressiveTax alone
InitTax ==
    /\ args \in ProgressiveTaxArguments
    /\ result = Undefined
    /\ InitPage

NextTax == ProgressiveTax

SpecTax == InitTax /\ [][NextTax]_vars

\* calculate alone, on the calls that differ in their bonuses
BonusArguments ==
    { a \in CalculateArguments :
        /\ a.grossMonthly \in {4736843, 8000000}
        /\ a.ptkpStatus = "TK"
        /\ a.terCategory = "B"
        /\ a.pensionMonthly = 0 }

InitBonus ==
    /\ args \in BonusArguments
    /\ result = Undefined
    /\ InitPage

NextBonus == CalculateTraditional \/ CalculateTER

SpecBonus == InitBonus /\ [][NextBonus]_vars

----------------------------------------------------------------------------
(* The page: bonusList is one array that addBonus and removeBonus change   *)
(* in place and the reset handler replaces; the submit handler passes it   *)
(* to calculate, which returns it in the bonuses field of the result.      *)

MaxListed == 1
MaxArrays == 2

\* what the submit handler reads from the form: a PPh 21 entry, with a gross
\* monthly income that passes the check or one that does not
FormInputs ==
    { [grossMonthly |-> g, ptkpStatus |-> "TK", workMonths |-> 12,
       scheme |-> sch, terCategory |-> "B", pensionMonthly |-> 0, zakatAnnual |-> 0] :
        g \in {8000000, 0}, sch \in {"ter"} }

\* pph21Calculator.calculate(grossMonthly, ..., zakatAnnual, bonusList)
FormCall(f, bonuses) ==
    [fn |-> "calculate", grossMonthly |-> f.grossMonthly, ptkpStatus |-> f.ptkpStatus,
     workMonths |-> f.workMonths, scheme |-> f.scheme, terCategory |-> f.terCategory,
     pensionMonthly |-> f.pensionMonthly, zakatAnnual |-> f.zakatAnnual,
     bonuses |-> bonuses]

\* what parseFloat returns for a field that holds no number
NaN == [nan |-> TRUE]

\* what addBonus reads from the bonus fields: the name trimmed, the amount
\* parsed by parseFloat and the month by parseInt
BonusFields ==
    BonusInputs \cup
    { [name |-> "",    amount |-> NumberOf(5000000),  month |-> 6],
      [name |-> "THR", amount |-> NaN,                month |-> 6],
      [name |-> "THR", amount |-> NumZero,            month |-> 6],
      [name |-> "THR", amount |-> NumberOf(-5000000), month |-> 6],
      [name |-> "",    amount |-> NaN,                month |-> 13],
      [name |-> "THR", amount |-> NumberOf(5000000),  month |-> 0],
      [name |-> "THR", amount |-> NumberOf(5000000),  month |-> 13] }

\* addBonus without the check of its fields
AddBonus_Unchecked ==
    /\ Len(heap[bonusList]) < MaxListed
    /\ \E b \in BonusFields :
          /\ args' = [fn |-> "addBonus", name |-> b.name, amount |-> b.amount,
                      month |-> b.month]
          /\ heap' = [heap EXCEPT ![bonusList] = Append(@, b)]
    /\ UNCHANGED <<result, bonusList, held, errorDiv, resultsDiv>>

\* addBonus: the fields are checked, then bonusList.push({ name, amount, month })
AddBonus ==
    /\ \E b \in BonusFields :
          /\ args' = [fn |-> "addBonus", name |-> b.name, amount |-> b.amount,
                      month |-> b.month]
          /\ IF \/ b.name = ""
                \/ b.amount = NaN
                \/ NumCmp(b.amount, NumZero) <= 0
                \/ b.month < 1
                \/ b.month > 12
             THEN /\ errorDiv' = "Please enter valid bonus details"
                  /\ UNCHANGED heap
             ELSE /\ Len(heap[bonusList]) < MaxListed
                  /\ heap' = [heap EXCEPT ![bonusList] = Append(@, b)]
                  /\ UNCHANGED errorDiv
    /\ UNCHANGED <<result, bonusList, held, resultsDiv>>

\* array.splice(index, 1), index counted from 0
Spliced(array, index) == SubSeq(array, 1, index) \o SubSeq(array, index + 2, Len(array))

RemoveBonus ==
    /\ \E index \in 0..(Len(heap[bonusList]) - 1) :
          /\ args' = [fn |-> "removeBonus", index |-> index]
          /\ heap' = [heap EXCEPT ![bonusList] = Spliced(@, index)]
    /\ UNCHANGED <<result, bonusList, held, errorDiv, resultsDiv>>

\* the reset handler: the error is cleared, the results are hidden and
\* bonusList = []
Reset ==
    /\ Len(heap) < MaxArrays
    /\ args' = [fn |-> "reset"]
    /\ errorDiv' = ""
    /\ resultsDiv' = FALSE
    /\ heap' = Append(heap, <<>>)
    /\ bonusList' = Len(heap) + 1
    /\ result' = Undefined
    /\ UNCHANGED held

\* updateFormFields, on a change of the tax type: the results are hidden and
\* the error is cleared
UpdateFormFields ==
    /\ args' = [fn |-> "updateFormFields"]
    /\ resultsDiv' = FALSE
    /\ errorDiv' = ""
    /\ UNCHANGED <<result, heap, bonusList, held>>

\* the result of a call as the caller holds it: bonuses is the array passed
HeldResult(value, reference) == [result |-> value, bonuses |-> reference]

\* the submit handler, PPh 21 case: the error is cleared; a gross monthly
\* income that fails the check shows an error and returns, else calculate is
\* called with bonusList and its result displayed, or the error of the catch
Submit ==
    \E f \in FormInputs :
        IF f.grossMonthly <= 0
        THEN /\ args' = [fn |-> "submit", grossMonthly |-> f.grossMonthly]
             /\ errorDiv' = "Please enter a valid gross monthly income"
             /\ UNCHANGED <<result, heap, bonusList, held, resultsDiv>>
        ELSE /\ args' = FormCall(f, heap[bonusList])
             /\ result' = Returned(FormCall(f, heap[bonusList]))
             /\ heap' = [heap EXCEPT ![bonusList] = BonusesAfterCall(@)]
             /\ held' = IF held = Undefined /\ ~Thrown(result')
                        THEN HeldResult(result', bonusList) ELSE held
             /\ errorDiv' = IF Thrown(result')
                            THEN "An error occurred during calculation. Please try again."
                            ELSE ""
             /\ resultsDiv' = (Thrown(result') => resultsDiv)
             /\ UNCHANGED bonusList

InitUI ==
    /\ args = [fn |-> "submit"]
    /\ result = Undefined
    /\ InitPage

NextUI == AddBonus \/ RemoveBonus \/ Reset \/ UpdateFormFields \/ Submit

SpecUI == InitUI /\ [][NextUI]_vars

\* the bonus list alone: addBonus, removeBonus and the reset of the form
NextList == AddBonus \/ RemoveBonus \/ Reset

SpecList == InitUI /\ [][NextList]_vars

----------------------------------------------------------------------------
(* Properties                                                              *)

\* the call fn has returned, and not thrown
Called(fn) == args.fn = fn /\ result # Undefined /\ ~Thrown(result)

\* a number that is a whole multiple of 1,000
IsThousands(x) == NumIsInteger(x) /\ BModSmall(NumIntMag(x), 1000) = 0

\* the number of months the TER table is applied to: min(11, workMonths clamped to 1..12)
WithheldMonths(workMonthsInput) ==
    IF workMonthsInput < 1 THEN 1
    ELSE IF workMonthsInput > 11 THEN 11 ELSE workMonthsInput

\* the arguments a without their k-th bonus
WithoutBonus(a, k) ==
    [a EXCEPT !.bonuses = SubSeq(@, 1, k - 1) \o SubSeq(@, k + 1, Len(@))]

\* the arguments a with their k-th bonus dated to month 1
WithBonusInJanuary(a, k) == [a EXCEPT !.bonuses[k].month = 1]

\* C1: in every TER result, terPaid + month12Adjustment equals annualTax exactly
C1_TERReconcilesExactly ==
    (Called("calculate") /\ args.scheme = "ter")
        => NumAdd(result.terPaid, result.month12Adjustment) = result.annualTax

\* C2: pkp is max(0, nettoAnnual - ptkp) rounded down to a multiple of 1,000,
\* never negative, and ptkp is the full annual amount of the status whatever
\* the months worked
C2_PkpRoundedDown ==
    Called("calculate") =>
        /\ args.ptkpStatus \in DOMAIN PTKP_RATES
              => result.ptkp = NumberOf(PTKP_RATES[args.ptkpStatus])
        /\ ~result.pkp.neg
        /\ IsThousands(result.pkp)
        /\ IF NumCmp(result.nettoAnnual, result.ptkp) > 0
           THEN /\ NumCmp(NumAdd(result.pkp, result.ptkp), result.nettoAnnual) <= 0
                /\ NumCmp(result.nettoAnnual,
                          NumAdd(NumAdd(result.pkp, result.ptkp), NumberOf(1000))) < 0
           ELSE result.pkp = NumZero

C2_Witness ==
    /\ Called("calculate")
    /\ NumCmp(result.pkp, NumZero) > 0
    /\ NumCmp(NumAdd(result.pkp, result.ptkp), result.nettoAnnual) < 0

\* C3: calculateProgressiveTax is monotone: pkp1 < pkp2 implies tax1 <= tax2
C3_TaxMonotone ==
    (Called("calculateProgressiveTax") /\ lt(args.pkp1, args.pkp2))
        => lte(result.tax1, result.tax2)

C3_Witness ==
    /\ Called("calculateProgressiveTax")
    /\ gt(args.pkp1, DecimalOf(0))
    /\ lt(args.pkp1, TAX_BRACKETS[1].limit)
    /\ gt(args.pkp2, TAX_BRACKETS[2].limit)
    /\ lt(result.tax1, result.tax2)

\* C4: the tax of a taxable income x <= 0 is 0, and so annualTax is 0
\* whenever nettoAnnual < ptkp + 1,000
C4_NoTaxBelowThreshold ==
    /\ (Called("calculateProgressiveTax") /\ lte(args.pkp1, DecimalOf(0)))
          => DCmp(result.tax1, DecimalOf(0)) = 0
    /\ (Called("calculateProgressiveTax") /\ lte(args.pkp2, DecimalOf(0)))
          => DCmp(result.tax2, DecimalOf(0)) = 0
    /\ ( /\ Called("calculate")
         /\ NumCmp(result.nettoAnnual, NumAdd(result.ptkp, NumberOf(1000))) < 0 )
          => result.annualTax = NumZero

C4_Witness ==
    /\ Called("calculate")
    /\ NumCmp(result.nettoAnnual, result.ptkp) > 0
    /\ NumCmp(result.nettoAnnual, NumAdd(result.ptkp, NumberOf(1000))) < 0
    /\ result.annualTax = NumZero

\* C5 as stated: for every grossAnnual, 0 <= biaya jabatan <= 6,000,000
C5_BiayaJabatanBoundedAlways ==
    /\ Called("calculateBiayaJabatan") =>
          /\ gte(result.biayaJabatan, DecimalOf(0))
          /\ lte(result.biayaJabatan, DecimalOf(6000000))
    /\ Called("calculate") =>
          /\ NumCmp(result.biayaJabatan, NumZero) >= 0
          /\ NumCmp(result.biayaJabatan, NumberOf(6000000)) <= 0

\* C5: for every grossAnnual >= 0, 0 <= biaya jabatan <= 6,000,000
C5_BiayaJabatanBounded ==
    /\ (Called("calculateBiayaJabatan") /\ gte(args.grossAnnual, DecimalOf(0))) =>
          /\ gte(result.biayaJabatan, DecimalOf(0))
          /\ lte(result.biayaJabatan, DecimalOf(6000000))
    /\ (Called("calculate") /\ NumCmp(result.grossAnnual, NumZero) >= 0) =>
          /\ NumCmp(result.biayaJabatan, NumZero) >= 0
          /\ NumCmp(result.biayaJabatan, NumberOf(6000000)) <= 0

C5_Witness ==
    /\ Called("calculateBiayaJabatan")
    /\ gt(args.grossAnnual, DecimalOf(120000000))
    /\ DCmp(result.biayaJabatan, DecimalOf(6000000)) = 0

\* the call of scenario A: 10,000,000 a month, TK, 12 months, traditional
IsScenarioA ==
    /\ args.fn = "calculate"
    /\ args.grossMonthly = 10000000
    /\ args.ptkpStatus = "TK"
    /\ args.workMonths = 12
    /\ args.scheme = "traditional"
    /\ args.pensionMonthly = 0
    /\ args.zakatAnnual = 0
    /\ args.bonuses = <<>>

\* C6: scenario A returns grossAnnual 120,000,000, biayaJabatan 6,000,000,
\* ptkp 54,000,000, nettoAnnual 114,000,000, pkp 60,000,000, annualTax 4,000,000
C6_ScenarioA ==
    (IsScenarioA /\ Called("calculate")) =>
        /\ result.grossAnnual  = NumberOf(120000000)
        /\ result.biayaJabatan = NumberOf(6000000)
        /\ result.ptkp         = NumberOf(54000000)
        /\ result.nettoAnnual  = NumberOf(114000000)
        /\ result.pkp          = NumberOf(60000000)
        /\ result.annualTax    = NumberOf(4000000)

C6_Witness ==
    /\ IsScenarioA
    /\ Called("calculate")
    /\ result.annualTax = NumberOf(4000000)

\* the call of scenario B: 8,000,000 a month, 12 months, TER category B, no bonuses
IsScenarioB ==
    /\ args.fn = "calculate"
    /\ args.grossMonthly = 8000000
    /\ args.workMonths = 12
    /\ args.scheme = "ter"
    /\ args.terCategory = "B"
    /\ args.bonuses = <<>>

\* scenario B withholds rate (given in ten-thousandths) and tax in each of
\* the months 1..11, and settles the rest of annualTax in month 12
ScenarioBWithholds(rate, tax) ==
    /\ Len(result.monthlyBreakdown) = 11
    /\ \A i \in 1..11 :
          /\ result.monthlyBreakdown[i].terRate = toNumber(DecimalLit(rate, 4))
          /\ result.monthlyBreakdown[i].tax = NumberOf(tax)
    /\ result.terPaid = NumberOf(11 * tax)
    /\ result.month12Adjustment = NumSub(result.annualTax, NumberOf(11 * tax))

\* C7 as stated: scenario B withholds 0.0150 * 8,000,000 = 120,000 a month,
\* terPaid = 1,320,000 and month12Adjustment = annualTax - 1,320,000
C7_ScenarioBAtOneAndAHalfPercent ==
    (IsScenarioB /\ Called("calculate")) => ScenarioBWithholds(150, 120000)

\* C7: scenario B withholds 0.0100 * 8,000,000 = 80,000 a month,
\* terPaid = 880,000 and month12Adjustment = annualTax - 880,000
C7_ScenarioB ==
    (IsScenarioB /\ Called("calculate")) => ScenarioBWithholds(100, 80000)

C7_Witness ==
    /\ IsScenarioB
    /\ Called("calculate")
    /\ result.terPaid = NumberOf(880000)

\* the result of the call without the k-th bonus agrees with this result in
\* every month but m, where this one has the bonus amount b more income, taxed
\* at the table rate of the raised income
RaisesMonthOnly(without, m, amount) ==
    /\ Len(result.monthlyBreakdown) = Len(without)
    /\ result.monthlyBreakdown[m].income = NumAdd(without[m].income, amount)
    /\ result.monthlyBreakdown[m].terRate =
          toNumber(getTERRate(NewDecimal(result.monthlyBreakdown[m].income),
                              args.terCategory))
    /\ result.monthlyBreakdown[m].tax =
          toNumber(times(NewDecimal(result.monthlyBreakdown[m].income),
                         getTERRate(NewDecimal(result.monthlyBreakdown[m].income),
                                    args.terCategory)))
    /\ \A i \in 1..Len(without) :
          i # m => /\ result.monthlyBreakdown[i].income  = without[i].income
                   /\ result.monthlyBreakdown[i].terRate = without[i].terRate
                   /\ result.monthlyBreakdown[i].tax     = without[i].tax

\* C8: under TER a bonus dated to month m <= min(11, workMonths) raises the
\* income of month m alone (to grossMonthly + b when it is the month's only
\* bonus), and the month's rate is looked up for, and applied to, the raised
\* income
C8_BonusRaisesItsMonth ==
    (Called("calculate") /\ args.scheme = "ter") =>
        \A k \in 1..Len(args.bonuses) :
            args.bonuses[k].month <= WithheldMonths(args.workMonths) =>
                /\ RaisesMonthOnly(Returned(WithoutBonus(args, k)).monthlyBreakdown,
                                   args.bonuses[k].month, args.bonuses[k].amount)
                /\ (\A j \in 1..Len(args.bonuses) :
                        j # k => args.bonuses[j].month # args.bonuses[k].month)
                      => result.monthlyBreakdown[args.bonuses[k].month].income =
                            NumAdd(NumberOf(args.grossMonthly), args.bonuses[k].amount)

C8_Witness ==
    /\ Called("calculate")
    /\ args.scheme = "ter"
    /\ args.grossMonthly = 8000000
    /\ args.workMonths = 12
    /\ Len(args.bonuses) = 1
    /\ args.bonuses[1].month = 6
    /\ result.monthlyBreakdown[6].income = NumberOf(13000000)
    /\ result.monthlyBreakdown[6].terRate = toNumber(DecimalLit(300, 4))
    /\ result.monthlyBreakdown[5].income = NumberOf(8000000)

\* this result and the one of the call without the bonus withhold the same,
\* and differ by the bonus amount in bonusTotal and grossAnnual
CountsAnnuallyOnly(without, amount) ==
    /\ result.monthlyBreakdown = without.monthlyBreakdown
    /\ result.terPaid = without.terPaid
    /\ result.bonusTotal = NumAdd(without.bonusTotal, amount)
    /\ result.grossAnnual = NumAdd(without.grossAnnual, amount)

\* this result has the annual figures of the call that dates the bonus to a
\* worked month
SameAnnualFigures(worked) ==
    /\ result.grossAnnual  = worked.grossAnnual
    /\ result.biayaJabatan = worked.biayaJabatan
    /\ result.pkp          = worked.pkp
    /\ result.annualTax    = worked.annualTax

\* C9: a bonus dated to a month after workMonths adds nothing to any month's
\* income or tax nor to terPaid, yet counts in bonusTotal and grossAnnual, and
\* so in biayaJabatan, pkp and annualTax
C9_UnworkedBonusCountsAnnually ==
    Called("calculate") =>
        \A k \in 1..Len(args.bonuses) :
            args.bonuses[k].month > result.workMonths =>
                /\ CountsAnnuallyOnly(Returned(WithoutBonus(args, k)),
                                      args.bonuses[k].amount)
                /\ SameAnnualFigures(Returned(WithBonusInJanuary(args, k)))

C9_Witness ==
    /\ Called("calculate")
    /\ args.scheme = "ter"
    /\ args.workMonths = 6
    /\ Len(args.bonuses) = 1
    /\ args.bonuses[1].month = 12
    /\ Len(result.monthlyBreakdown) = 6
    /\ result.bonusTotal = NumberOf(7500000)

\* C10: the TER breakdown has exactly min(11, workMonths) records, for the
\* months 1, 2, ... in order, and never one for month 12
C10_BreakdownStopsAtEleven ==
    (Called("calculate") /\ args.scheme = "ter") =>
        /\ Len(result.monthlyBreakdown) = WithheldMonths(args.workMonths)
        /\ \A i \in 1..Len(result.monthlyBreakdown) :
              /\ result.monthlyBreakdown[i].month = i
              /\ result.monthlyBreakdown[i].month # 12

C10_Witness ==
    /\ Called("calculate")
    /\ args.scheme = "ter"
    /\ args.workMonths = 12
    /\ Len(args.bonuses) = 1
    /\ args.bonuses[1].month = 12
    /\ Len(result.monthlyBreakdown) = 11

\* the traditional call with the arguments of this TER call
Traditionally == Returned([args EXCEPT !.scheme = "traditional"])

\* the figures of the year are those of the result other
SameYear(other) ==
    /\ result.grossAnnual      = other.grossAnnual
    /\ result.bonusTotal       = other.bonusTotal
    /\ result.totalDeductions  = other.totalDeductions
    /\ result.nettoAnnual      = other.nettoAnnual
    /\ result.ptkp             = other.ptkp
    /\ result.pkp              = other.pkp
    /\ result.annualTax        = other.annualTax
    /\ result.monthlyTax       = other.monthlyTax
    /\ result.effectiveTaxRate = other.effectiveTaxRate
    /\ result.takeHomeAnnual   = other.takeHomeAnnual
    /\ result.takeHomeMonthly  = other.takeHomeMonthly

\* C11: a TER call returns the same grossAnnual, bonusTotal, totalDeductions,
\* nettoAnnual, ptkp, pkp, annualTax, monthlyTax, effectiveTaxRate,
\* takeHomeAnnual and takeHomeMonthly as the traditional call with the same
\* other arguments, whatever the category
C11_SchemesAgreeOnTheYear ==
    (Called("calculate") /\ args.scheme = "ter") => SameYear(Traditionally)

C11_Witness ==
    /\ Called("calculate")
    /\ args.scheme = "ter"
    /\ args.terCategory = "C"
    /\ args.bonuses # <<>>
    /\ NumCmp(result.annualTax, NumZero) > 0
    /\ NumCmp(result.terPaid, NumZero) > 0
    /\ result.terPaid # result.annualTax

\* the amount C12 gives for a status: that of its tier, the single tier's for
\* any other string
TierAmount(status) ==
    CASE status = "TK" -> 54000000
      [] status = "K1" -> 58500000
      [] status = "K2" -> 63000000
      [] status = "K3" -> 67500000
      [] OTHER -> 54000000

\* C12: getPTKP returns 54,000,000 / 58,500,000 / 63,000,000 / 67,500,000 for
\* TK / K1 / K2 / K3 and 54,000,000 for every other status string, and raises
\* no error
C12_UnknownStatusIsSingle ==
    (args.fn = "getPTKP" /\ result # Undefined) =>
        /\ ~Thrown(result.ptkp)
        /\ DCmp(result.ptkp, DecimalOf(TierAmount(args.status))) = 0

\* row i of the TER table contains the income
RowContains(i, income) ==
    /\ gte(income, TER_MONTHLY_RATES[i].minIncome)
    /\ lte(income, TER_MONTHLY_RATES[i].maxIncome)

\* getTERRate has returned
LookedUp == args.fn = "getTERRate" /\ result # Undefined

\* C13: for every monthly income >= 0, whole or fractional, and every category,
\* getTERRate returns the rate of a table row that contains the income
C13_TERTableExhaustive ==
    (LookedUp /\ gte(args.monthlyIncome, DecimalOf(0))) =>
        \E i \in 1..Len(TER_MONTHLY_RATES) :
            /\ RowContains(i, args.monthlyIncome)
            /\ DCmp(result.terRate,
                    DecimalLit(RateOf(TER_MONTHLY_RATES[i], args.category), 4)) = 0

\* the hardcoded rate of a category, in hundredths
HardcodedRate(category) ==
    CASE category = "A" -> 15
      [] category = "B" -> 20
      [] category = "C" -> 25

\* C14: when no TER row contains the monthly income, getTERRate returns 0.15
\* for category A, 0.20 for B and 0.25 for C, which are the rates of the top
\* row, and raises no error
C14_FallbackIsTopRate ==
    (LookedUp /\ \A i \in 1..Len(TER_MONTHLY_RATES) : ~RowContains(i, args.monthlyIncome)) =>
        /\ ~Thrown(result.terRate)
        /\ DCmp(result.terRate, DecimalLit(HardcodedRate(args.category), 2)) = 0
        /\ DCmp(result.terRate,
                DecimalLit(RateOf(TER_MONTHLY_RATES[Len(TER_MONTHLY_RATES)],
                                  args.category), 4)) = 0

C14_Witness ==
    /\ LookedUp
    /\ lt(args.monthlyIncome, DecimalOf(0))
    /\ args.category = "B"
    /\ DCmp(result.terRate, DecimalLit(20, 2)) = 0

\* annualTax / grossAnnual * 100, from the numbers of the result
RateOfResult ==
    toNumber(times(dividedBy(NewDecimal(result.annualTax), NewDecimal(result.grossAnnual)),
                   DecimalOf(100)))

\* C15: when grossAnnual is 0 the returned effectiveTaxRate is 0, and
\* otherwise it is annualTax / grossAnnual * 100
C15_EffectiveRateGuarded ==
    Called("calculate") =>
        IF result.grossAnnual = NumZero
        THEN result.effectiveTaxRate = NumZero
        ELSE result.effectiveTaxRate = RateOfResult

C15_Witness ==
    /\ Called("calculate")
    /\ args.grossMonthly = 0
    /\ result.grossAnnual = NumZero
    /\ result.effectiveTaxRate = NumZero

\* C16: calculate returns a result without raising an error for every numeric
\* input, a negative grossMonthly, an unknown ptkpStatus, workMonths outside
\* 1..12 and bonuses dated outside the worked months or 1..12 included
C16_CalculateNeverThrows ==
    (args.fn = "calculate" /\ result # Undefined) =>
        ~Thrown(result)

\* workMonths brought into 1..12
Clamped(workMonthsInput) ==
    IF workMonthsInput < 1 THEN 1
    ELSE IF workMonthsInput > 12 THEN 12 ELSE workMonthsInput

\* the amounts of the bonuses dated to a month, from bonus k on, added to sum
RECURSIVE PlusBonusesOf(_, _, _, _)
PlusBonusesOf(sum, bonuses, month, k) ==
    IF k > Len(bonuses) THEN sum
    ELSE PlusBonusesOf(IF bonuses[k].month = month THEN NumAdd(sum, bonuses[k].amount)
                       ELSE sum,
                       bonuses, month, k + 1)

\* n times an amount of whole rupiah, as a number
Months(n, amount) == toNumber(times(DecimalOf(amount), DecimalOf(n)))

\* C17: the returned workMonths is the input clamped into 1..12, and the
\* clamped value is the one behind grossAnnual, pensionAnnual, the salaried
\* months of the breakdown and the test that puts a bonus in its month
C17_WorkMonthsClamped ==
    Called("calculate") =>
        /\ result.workMonths \in 1..12
        /\ result.workMonths = Clamped(args.workMonths)
        /\ result.grossAnnual =
              NumAdd(Months(Clamped(args.workMonths), args.grossMonthly), result.bonusTotal)
        /\ result.pensionAnnual = Months(Clamped(args.workMonths), args.pensionMonthly)
        /\ args.scheme = "ter" =>
              /\ Len(result.monthlyBreakdown) = WithheldMonths(args.workMonths)
              /\ \A i \in 1..Len(result.monthlyBreakdown) :
                    result.monthlyBreakdown[i].income =
                        PlusBonusesOf(NumberOf(args.grossMonthly), args.bonuses, i, 1)

C17_Witness ==
    /\ Called("calculate")
    /\ args.scheme = "ter"
    /\ args.workMonths = -3
    /\ args.grossMonthly = 10000000
    /\ result.workMonths = 1
    /\ result.grossAnnual = NumberOf(12000000)
    /\ result.monthlyBreakdown[1].income = NumberOf(12000000)

C19_ResultImmutable ==
    held # Undefined => heap[held.bonuses] = held.result.bonuses

\* C20: under the traditional scheme monthlyBreakdown, terPaid,
\* month12Adjustment and terCategory are undefined whatever category and
\* bonuses were passed; under TER all four are present, terPaid and
\* month12Adjustment also when they are 0
C20_MonthlyViewOnlyUnderTER ==
    Called("calculate") =>
        IF args.scheme = "traditional"
        THEN /\ result.monthlyBreakdown = Undefined
             /\ result.terPaid = Undefined
             /\ result.month12Adjustment = Undefined
             /\ result.terCategory = Undefined
        ELSE /\ Len(result.monthlyBreakdown) = WithheldMonths(args.workMonths)
             /\ result.terPaid # Undefined
             /\ result.month12Adjustment # Undefined
             /\ result.terCategory = args.terCategory

C20_Witness ==
    /\ Called("calculate")
    /\ args.scheme = "ter"
    /\ args.terCategory = "A"
    /\ Len(result.monthlyBreakdown) = 11
    /\ result.terPaid = NumZero
    /\ result.month12Adjustment = NumZero

\* the lower end of bracket i: the limit of the bracket below, 0 for the first
LowerLimit(i) == IF i = 1 THEN DecimalOf(0) ELSE TAX_BRACKETS[i - 1].limit

\* rate_i * max(0, min(pkp, limit_i) - limit_(i-1)): the tax on the slice of
\* pkp that lies in bracket i
SliceTax(pkp, i) ==
    times(TAX_BRACKETS[i].rate,
          Decimal_max(DecimalOf(0),
                      minus(Decimal_min(pkp, TAX_BRACKETS[i].limit), LowerLimit(i))))

\* the sum of the slice taxes of the brackets 1..n
RECURSIVE SliceTaxes(_, _)
SliceTaxes(pkp, n) ==
    IF n = 0 THEN DecimalOf(0) ELSE plus(SliceTaxes(pkp, n - 1), SliceTax(pkp, n))

\* the tax at the four finite bracket limits
TaxAtLimit == <<2500000, 32500000, 95000000, 1445000000>>

\* tax is the marginal-rate tax of pkp
IsMarginalTax(pkp, tax) ==
    /\ gt(pkp, DecimalOf(0)) => DCmp(tax, SliceTaxes(pkp, Len(TAX_BRACKETS))) = 0
    /\ \A k \in 1..4 :
          DCmp(pkp, TAX_BRACKETS[k].limit) = 0 =>
              /\ DCmp(tax, DecimalOf(TaxAtLimit[k])) = 0
              /\ DCmp(tax, SliceTaxes(pkp, k)) = 0

\* C21: for every pkp > 0 calculateProgressiveTax returns the sum over the five
\* brackets of rate_i * max(0, min(pkp, limit_i) - limit_(i-1)); at the limits
\* 50,000,000, 250,000,000, 500,000,000 and 5,000,000,000 the tax is 2,500,000,
\* 32,500,000, 95,000,000 and 1,445,000,000, all of it from the brackets up to
\* the one the limit closes
C21_MarginalRates ==
    Called("calculateProgressiveTax") =>
        /\ IsMarginalTax(args.pkp1, result.tax1)
        /\ IsMarginalTax(args.pkp2, result.tax2)

C21_Witness ==
    /\ Called("calculateProgressiveTax")
    /\ DCmp(args.pkp1, TAX_BRACKETS[2].limit) = 0
    /\ DCmp(result.tax1, DecimalOf(32500000)) = 0
    /\ DCmp(args.pkp2, TAX_BRACKETS[4].limit) > 0
    /\ DCmp(result.tax2, DecimalOf(1445000000)) > 0

\* getTERRate has returned the rate of row i for the category asked
ReturnedRateOfRow(i) ==
    DCmp(result.terRate, DecimalLit(RateOf(TER_MONTHLY_RATES[i], args.category), 4)) = 0

\* C22: getTERRate returns the category's rate of the first row whose
\* [minIncome, maxIncome] contains the income, both ends included: an income
\* equal to a row's maxIncome takes that row's rate, an income equal to a
\* row's minIncome takes that row's rate
C22_FirstContainingRow ==
    LookedUp =>
        \A i \in 1..Len(TER_MONTHLY_RATES) :
            /\ ( /\ RowContains(i, args.monthlyIncome)
                 /\ \A j \in 1..(i - 1) : ~RowContains(j, args.monthlyIncome) )
                  => ReturnedRateOfRow(i)
            /\ DCmp(args.monthlyIncome, TER_MONTHLY_RATES[i].maxIncome) = 0
                  => ReturnedRateOfRow(i)
            /\ DCmp(args.monthlyIncome, TER_MONTHLY_RATES[i].minIncome) = 0
                  => ReturnedRateOfRow(i)

\* 8,000,001 is the minIncome of the fifth row: category B pays 1.5 percent
C22_Witness ==
    /\ LookedUp
    /\ DCmp(args.monthlyIncome, DecimalOf(8000001)) = 0
    /\ DCmp(args.monthlyIncome, TER_MONTHLY_RATES[5].minIncome) = 0
    /\ args.category = "B"
    /\ DCmp(result.terRate, DecimalLit(150, 4)) = 0

\* the sum of the amounts of the bonuses from bonus k on, added to sum
RECURSIVE PlusAmounts(_, _, _)
PlusAmounts(sum, bonuses, k) ==
    IF k > Len(bonuses) THEN sum
    ELSE PlusAmounts(NumAdd(sum, bonuses[k].amount), bonuses, k + 1)

\* 5 percent of a whole amount, at most 6,000,000
FivePercentCapped(x) ==
    toNumber(Decimal_min(times(NewDecimal(x), DecimalLit(5, 2)), DecimalOf(6000000)))

\* C23: under both schemes grossAnnual = grossMonthly * workMonths + the sum of
\* all bonus amounts, pensionAnnual = pensionMonthly * workMonths,
\* totalDeductions = biayaJabatan(grossAnnual) + pensionAnnual + zakatAnnual and
\* nettoAnnual = grossAnnual - totalDeductions, workMonths being the clamped
\* value and zakat the annual amount passed
C23_CommonPrefix ==
    Called("calculate") =>
        /\ result.bonusTotal = PlusAmounts(NumZero, args.bonuses, 1)
        /\ result.grossAnnual =
              NumAdd(Months(Clamped(args.workMonths), args.grossMonthly),
                     PlusAmounts(NumZero, args.bonuses, 1))
        /\ result.pensionAnnual = Months(Clamped(args.workMonths), args.pensionMonthly)
        /\ result.biayaJabatan = FivePercentCapped(result.grossAnnual)
        /\ result.zakatDonation = NumberOf(args.zakatAnnual)
        /\ result.totalDeductions =
              NumAdd(NumAdd(result.biayaJabatan, result.pensionAnnual),
                     NumberOf(args.zakatAnnual))
        /\ result.nettoAnnual = NumSub(result.grossAnnual, result.totalDeductions)

C23_Witness ==
    /\ Called("calculate")
    /\ args.scheme = "traditional"
    /\ args.workMonths = 13
    /\ args.pensionMonthly = 200000
    /\ args.zakatAnnual = 1500000
    /\ Len(args.bonuses) = 2
    /\ result.grossAnnual = NumAdd(NumberOf(120000000), PlusAmounts(NumZero, args.bonuses, 1))
    /\ result.totalDeductions = NumberOf(9900000)
    /\ result.nettoAnnual = NumSub(result.grossAnnual, NumberOf(9900000))

\* the rate of the table for a returned income and the category of the call
RateFor(income) == getTERRate(NewDecimal(income), args.terCategory)

\* income * rate for a returned income
TaxFor(income) == times(NewDecimal(income), RateFor(income))

\* the sum of income * rate over the first n records of a breakdown
RECURSIVE TaxesOf(_, _)
TaxesOf(breakdown, n) ==
    IF n = 0 THEN DecimalOf(0)
    ELSE plus(TaxesOf(breakdown, n - 1), TaxFor(breakdown[n].income))

RECURSIVE BonusesOutside(_, _, _)
BonusesOutside(bonuses, month, k) ==
    IF k > Len(bonuses) THEN <<>>
    ELSE (IF bonuses[k].month = month THEN <<>> ELSE <<bonuses[k]>>)
         \o BonusesOutside(bonuses, month, k + 1)

\* the result of this call without its bonuses of month 12
WithoutDecember == Returned([args EXCEPT !.bonuses = BonusesOutside(@, 12, 1)])

\* C25: under TER with twelve months worked, monthlyBreakdown and terPaid are
\* those of the call without the bonuses dated to month 12
C25_DecemberBonusNotWithheld ==
    (Called("calculate") /\ args.scheme = "ter" /\ result.workMonths = 12) =>
        /\ result.monthlyBreakdown = WithoutDecember.monthlyBreakdown
        /\ result.terPaid = WithoutDecember.terPaid

\* a bonus in month 12 that raises the tax of the year and the settlement of
\* month 12, and nothing withheld before
C25_Witness ==
    /\ Called("calculate")
    /\ args.scheme = "ter"
    /\ args.workMonths = 12
    /\ args.grossMonthly = 8000000
    /\ Len(args.bonuses) = 2
    /\ args.bonuses[1].month = 6
    /\ args.bonuses[2].month = 12
    /\ result.terPaid = WithoutDecember.terPaid
    /\ NumCmp(result.annualTax, WithoutDecember.annualTax) > 0
    /\ NumCmp(result.month12Adjustment, WithoutDecember.month12Adjustment) > 0

\* the monetary arguments of the call are not negative
NonNegativeArguments ==
    /\ args.grossMonthly >= 0
    /\ args.pensionMonthly >= 0
    /\ args.zakatAnnual >= 0
    /\ \A k \in 1..Len(args.bonuses) : NumCmp(args.bonuses[k].amount, NumZero) >= 0

\* 35 percent of a whole amount
TopRateOf(x) == toNumber(times(NewDecimal(x), DecimalLit(35, 2)))

\* C26: when no monetary argument is negative,
\* 0 <= annualTax <= 35% of pkp <= grossAnnual, takeHomeAnnual >= 0 and
\* 0 <= effectiveTaxRate <= 35
C26_LiabilityWithinIncome ==
    (Called("calculate") /\ NonNegativeArguments) =>
        /\ NumCmp(result.annualTax, NumZero) >= 0
        /\ NumCmp(result.annualTax, TopRateOf(result.pkp)) <= 0
        /\ NumCmp(TopRateOf(result.pkp), result.grossAnnual) <= 0
        /\ NumCmp(result.takeHomeAnnual, NumZero) >= 0
        /\ NumCmp(result.effectiveTaxRate, NumZero) >= 0
        /\ NumCmp(result.effectiveTaxRate, NumberOf(35)) <= 0

\* 450,000,000 a month reaches the top bracket
C26_Witness ==
    /\ Called("calculate")
    /\ NonNegativeArguments
    /\ args.pensionMonthly > 0
    /\ Len(args.bonuses) = 2
    /\ NumCmp(result.pkp, toNumber(TAX_BRACKETS[4].limit)) > 0
    /\ NumCmp(result.annualTax, NumberOf(1445000000)) > 0
    /\ NumCmp(result.effectiveTaxRate, NumberOf(25)) > 0

\* a number that is a whole multiple of 50
IsFifties(x) == NumIsInteger(x) /\ BModSmall(NumIntMag(x), 50) = 0

\* C27: for every input of calculate annualTax is a whole number of rupiah,
\* a non-negative multiple of 50
C27_TaxInWholeFifties ==
    Called("calculate") =>
        /\ ~result.annualTax.neg
        /\ IsFifties(result.annualTax)

\* 4,736,843 a month and a bonus of 5,000,000: nettoAnnual has a fraction,
\* pkp is 4,750,000 and the tax 237,500
C27_Witness ==
    /\ Called("calculate")
    /\ args.grossMonthly = 4736843
    /\ ~NumIsInteger(result.nettoAnnual)
    /\ result.pkp = NumberOf(4750000)
    /\ result.annualTax = NumberOf(237500)
    /\ ~IsThousands(result.annualTax)

\* the rate for this call's category is not above the rate for the same
\* category of any income that is not below this call's
NotAboveHigherIncomes ==
    \A higher \in TERIncomeInputs :
        gte(higher, args.monthlyIncome)
            => lte(result.terRate, getTERRate(higher, args.category))

\* the rates of the three categories for this call's income are in order
OrderedByCategory ==
    /\ lte(getTERRate(args.monthlyIncome, "A"), getTERRate(args.monthlyIncome, "B"))
    /\ lte(getTERRate(args.monthlyIncome, "B"), getTERRate(args.monthlyIncome, "C"))

\* terPaid of this call with another category
PaidUnder(category) == Returned([args EXCEPT !.terCategory = category]).terPaid

\* C28: for every category getTERRate is non-decreasing in the monthly income
\* over all incomes >= 0, for every income >= 0 rateA <= rateB <= rateC, and
\* for the same inputs terPaid under A <= under B <= under C
C28_TERRateMonotone ==
    /\ (LookedUp /\ gte(args.monthlyIncome, DecimalOf(0))) =>
          /\ NotAboveHigherIncomes
          /\ OrderedByCategory
    /\ (Called("calculate") /\ args.scheme = "ter" /\ args.grossMonthly >= 0) =>
          /\ NumCmp(PaidUnder("A"), PaidUnder("B")) <= 0
          /\ NumCmp(PaidUnder("B"), PaidUnder("C")) <= 0

\* a bonus with a name, an amount > 0 and a month in 1..12
IsBonus(b) ==
    /\ b.name # ""
    /\ b.amount # NaN
    /\ NumCmp(b.amount, NumZero) > 0
    /\ b.month \in 1..12

\* every entry of the page's bonus list is a bonus
EntriesValid == \A k \in 1..Len(heap[bonusList]) : IsBonus(heap[bonusList][k])

C30_ErrorHidesResults == errorDiv # "" => ~resultsDiv

====
